---- MODULE Spec2Model ----
(***************************************************************************)
(* Model of functionality.py of the Blender annotation tool: the class     *)
(* registry operators (add class, remove class, the default-class setter   *)
(* and the hooks that call it), the instance colour generator and the      *)
(* blocking animation render operator.                                     *)
(*                                                                         *)
(* Python lists and bpy collections are 0-based; TLA+ sequences are        *)
(* 1-based.  Indices named "index" are the Python ones, and At / RemoveAt  *)
(* do the shift.                                                           *)
(***************************************************************************)
EXTENDS Integers, Sequences, FiniteSets, TLC

\* ------------------------------------------------------------------------
\* Bounds of the model

\* the longest class registry the model builds
MaxClasses == 4

\* the last frame number a scene's frame range uses
MaxFrame == 5

\* the largest frame step of a scene
MaxStep == 3

\* the number of failed animation renders a scene's output path can carry:
\* each leaves the part of one frame in the path
MaxFailures == 2

\* the number of next() calls followed one by one around the end of the palette
MaxExtraDraws == 3

\* the longest handler list
MaxHandlers == 3

\* the largest number of open windows, and of areas of a window
MaxWindows == 2

MaxAreas == 2

\* the largest number of instances of a scene that the hook renders masks of
MaxSceneInstances == 1

\* the largest of the small numbers of colours a mask rendering asks for
MaxInstances == 40

\* the numbers of colours a mask rendering asks for: the small ones, and those
\* around the two candidate lengths of the palette
DrawCounts == (0..MaxInstances) \cup {12166, 12167, 12168, 13823, 13824, 13825}

\* the numbers of colours asked for in the scenes the hook is followed in
SceneInstances == 0..MaxSceneInstances

\* ------------------------------------------------------------------------
\* Values

\* utils.DEFAULT_CLASS_NAME, the 'Background' class
DEFAULT_CLASS_NAME == "Background"

\* the strings offered as new_class_name and as the stored current_class
ClassNames == {"", DEFAULT_CLASS_NAME, "car", "tree", "road"}

\* mask_color of an entry created by classification_classes.add() and never
\* assigned: whatever the property's declared default is
UNSET_COLOR == "property default"

\* context.area of an operator call: None (a call without a UI area), or the
\* list of the region types of the area
NoArea == "None"

Areas == {NoArea, <<"HEADER", "WINDOW", "UI">>, <<"WINDOW">>, <<"UI", "WINDOW", "UI">>}

VARIABLES
    gen,                     \* instance_color_gen of the last annotation render: the position of its loop
    yielded,                 \* the colours that generator has yielded, in order
    stopped,                 \* a next() on it raised StopIteration
    requested,               \* the number of next() calls made on it
    previous,                \* how far the generator of the render before was consumed
    frame_start,             \* scene.frame_start
    frame_end,               \* scene.frame_end
    frame_step,              \* scene.frame_step
    frame_current,           \* scene.frame_current
    filepath,                \* scene.render.filepath
    pc,                      \* where BAT_OT_render_animation.execute stands
    frames,                  \* the frames its loop has still to take
    original_render_path,    \* its local of that name
    anim_ret,                \* what it returned
    entry_filepath,          \* scene.render.filepath as it was when it was called
    rendered,                \* the still renders the host made for it, in order
    classification_classes,  \* scene.bat_properties.classification_classes
    current_class,           \* scene.bat_properties.current_class
    call,                    \* the operator or hook that ran last, with its input
    reports,                 \* the self.report(...) messages of that call, in order
    ret,                     \* what that call returned (or the exception it raised)
    redraw,                  \* the regions (0-based) tag_redraw() was called on in that call
    depsgraph_update_pre,    \* bpy.app.handlers.depsgraph_update_pre
    load_post,               \* bpy.app.handlers.load_post
    render_write,            \* bpy.app.handlers.render_write
    registered_classes,      \* the operator classes the host has registered
    hook_call,               \* register, unregister or the hook that ran last
    hook_ret,                \* what it returned, or that it raised
    before_register,         \* the three handler lists as the last register() found them
    save_annotation,         \* scene.bat_properties.save_annotation
    write_still,             \* write_still of the last-used properties of render.opengl
    windows,                 \* bpy.context.window_manager.windows
    override,                \* the entries the render-write hook last put in its override
    annotated                \* the calls of the annotation render operator by the hook

regVars == <<classification_classes, current_class, call, reports, ret, redraw>>

colorVars == <<gen, yielded, stopped, requested, previous>>

animVars == <<frame_start, frame_end, frame_step, frame_current, filepath, pc, frames,
              original_render_path, anim_ret, entry_filepath, rendered>>

handlerVars == <<depsgraph_update_pre, load_post, render_write, registered_classes,
                 before_register>>

hookVars == <<save_annotation, write_still, windows, override, annotated>>

vars == <<regVars, colorVars, animVars, handlerVars, hookVars, hook_call, hook_ret>>

\* ------------------------------------------------------------------------
\* The instance colours.  A colour is <<r, g, b, 1>> with the channels r, g, b
\* written as their numerators over 255 (r = r/255 and so on in the source).

RECURSIVE range_StopIncluded(_, _, _)
\* a range that takes its stop value in
range_StopIncluded(start, stop, step) ==
    IF start > stop THEN <<>> ELSE <<start>> \o range_StopIncluded(start + step, stop, step)

RECURSIVE range(_, _, _)
\* list(range(start, stop, step)) for a step > 0
range(start, stop, step) ==
    IF start >= stop THEN <<>> ELSE <<start>> \o range(start + step, stop, step)

\* list(reversed(s))
reversed(s) == [i \in 1..Len(s) |-> s[Len(s) + 1 - i]]

\* the values each of the three loops runs over
ChannelValues == reversed(range(10, 240, 10))

RECURSIVE ForB(_, _, _)
\* what the innermost loop appends from its k-th value on, r and g being fixed
ForB(r, g, k) ==
    IF k > Len(ChannelValues) THEN <<>>
    ELSE <<(<<r, g, ChannelValues[k], 1>>)>> \o ForB(r, g, k + 1)

RECURSIVE ForG(_, _)
\* what the middle loop appends from its j-th value on, r being fixed
ForG(r, j) ==
    IF j > Len(ChannelValues) THEN <<>>
    ELSE ForB(r, ChannelValues[j], 1) \o ForG(r, j + 1)

RECURSIVE ForR(_)
\* what the outer loop appends from its i-th value on
ForR(i) ==
    IF i > Len(ChannelValues) THEN <<>>
    ELSE ForG(ChannelValues[i], 1) \o ForR(i + 1)

\* the module-level list, as the three nested loops leave it
INSTANCE_COLORS == ForR(1)

\* a generator that goes on where the previous one stopped
instance_color_Resumed == [index |-> IF gen.index < 0 THEN 0 ELSE gen.index]

\* instance_color(): a new generator, at the start of its loop over INSTANCE_COLORS
instance_color == [index |-> 0]

\* instance_color_gen before the operator has run: no generator
NoGenerator == [index |-> -1]

\* what became of a generator dropped at the end of its render: there was
\* none, or it was never drawn from, or drawn from in part, or to its end
Consumption(g) ==
    IF g = NoGenerator THEN "none"
    ELSE IF g.index = 0 THEN "unused"
    ELSE IF g.index < Len(INSTANCE_COLORS) THEN "partial"
    ELSE "exhausted"

\* a generator that starts over at the end of the list
Drawn_WrapAround(g, k) ==
    [gen |-> [index |-> (g.index + k) % Len(INSTANCE_COLORS)],
     yielded |-> [i \in 1..k |->
                    INSTANCE_COLORS[((g.index + i - 1) % Len(INSTANCE_COLORS)) + 1]],
     stopped |-> FALSE]

\* k times next() on the generator g: the loop over INSTANCE_COLORS yields the
\* colours from the position of g on, one a call, and a call made once the
\* list is at its end raises StopIteration
Drawn(g, k) ==
    LET end == IF g.index + k <= Len(INSTANCE_COLORS)
               THEN g.index + k ELSE Len(INSTANCE_COLORS)
    IN  [gen |-> [index |-> end],
         yielded |-> SubSeq(INSTANCE_COLORS, g.index + 1, end),
         stopped |-> g.index + k > Len(INSTANCE_COLORS)]

\* BAT_OT_render_annotation.execute in a scene whose mask rendering asks the
\* generator for k colours
render_annotation(k) ==
    LET run == Drawn(instance_color, k) IN
    /\ gen' = run.gen
    /\ yielded' = run.yielded
    /\ stopped' = run.stopped
    /\ requested' = k
    /\ previous' = Consumption(gen)
    /\ UNCHANGED <<regVars, animVars, handlerVars, hookVars, hook_call, hook_ret>>

RenderAnnotation == \E k \in DrawCounts : render_annotation(k)

\* the mask rendering asks the generator it was given for one colour more.
\* These single calls are followed where few colours were asked for, and
\* where the generator is at most MaxExtraDraws colours from its end or past
\* it, up to MaxExtraDraws calls past the first one that raised.
next_color ==
    LET run == Drawn(gen, 1) IN
    /\ gen # NoGenerator
    /\ \/ requested < MaxInstances
       \/ gen.index + MaxExtraDraws >= Len(INSTANCE_COLORS)
    /\ requested - Len(yielded) <= MaxExtraDraws
    /\ gen' = run.gen
    /\ yielded' = yielded \o run.yielded
    /\ stopped' = run.stopped
    /\ requested' = requested + 1
    /\ UNCHANGED previous
    /\ UNCHANGED <<regVars, animVars, handlerVars, hookVars, hook_call, hook_ret>>

\* ------------------------------------------------------------------------
\* The handler lists: register() and unregister()

\* a callback of another owner in a handler list
OTHER_HANDLER == "other"

\* classes, the operator classes of the module in their order
operator_classes == <<"BAT_OT_render_annotation", "BAT_OT_render_animation",
                      "BAT_OT_add_class", "BAT_OT_remove_class">>

\* x in list
In(x, list) == \E i \in 1..Len(list) : list[i] = x

\* list.remove(x) for an x in the list: its first occurrence goes
ListRemove(list, x) ==
    LET first == CHOOSE i \in 1..Len(list) :
                    /\ list[i] = x
                    /\ \A j \in 1..(i - 1) : list[j] # x
    IN  [i \in 1..(Len(list) - 1) |-> IF i < first THEN list[i] ELSE list[i + 1]]

\* if x in list: list.remove(x)
RemoveIfIn(list, x) == IF In(x, list) THEN ListRemove(list, x) ELSE list

\* the classes of cs (a list) that come before its first class that is
\* registered (want = TRUE) or not registered (want = FALSE): the loop over
\* cs gets through these, and the host raises at the next one, if there is one
DoneBeforeRaise(cs, want) ==
    {cs[i] : i \in {j \in 1..Len(cs) :
                      \A h \in 1..j : (cs[h] \in registered_classes) # want}}

register ==
    /\ pc = "idle"
    /\ Len(depsgraph_update_pre) < MaxHandlers
    /\ Len(load_post) < MaxHandlers
    /\ Len(render_write) < MaxHandlers
    /\ before_register' = <<depsgraph_update_pre, load_post, render_write>>
    /\ depsgraph_update_pre' = Append(depsgraph_update_pre, "onRegister")
    /\ load_post' = Append(load_post, "onFileLoaded")
    /\ render_write' = Append(render_write, "onRenderWrite")
    \* register_class of a class that is registered raises
    /\ registered_classes' = registered_classes \cup DoneBeforeRaise(operator_classes, TRUE)
    /\ hook_ret' = IF \E i \in 1..Len(operator_classes) :
                        operator_classes[i] \in registered_classes
                   THEN "raised" ELSE "None"
    /\ hook_call' = "register"
    /\ UNCHANGED <<regVars, colorVars, animVars, hookVars>>

unregister ==
    /\ pc = "idle"
    /\ depsgraph_update_pre' = RemoveIfIn(depsgraph_update_pre, "onRegister")
    /\ load_post' = RemoveIfIn(load_post, "onFileLoaded")
    /\ render_write' = RemoveIfIn(render_write, "onRenderWrite")
    \* unregister_class of a class that is not registered raises
    /\ registered_classes' =
          registered_classes \ DoneBeforeRaise(reversed(operator_classes), FALSE)
    /\ hook_ret' = IF \E i \in 1..Len(operator_classes) :
                        operator_classes[i] \notin registered_classes
                   THEN "raised" ELSE "None"
    /\ hook_call' = "unregister"
    /\ UNCHANGED <<regVars, colorVars, animVars, hookVars, before_register>>

\* another owner appends a callback of its own to one of the three lists
other_append ==
    /\ pc = "idle"
    /\ \/ /\ Len(depsgraph_update_pre) < MaxHandlers
          /\ depsgraph_update_pre' = Append(depsgraph_update_pre, OTHER_HANDLER)
          /\ UNCHANGED <<load_post, render_write>>
       \/ /\ Len(load_post) < MaxHandlers
          /\ load_post' = Append(load_post, OTHER_HANDLER)
          /\ UNCHANGED <<depsgraph_update_pre, render_write>>
       \/ /\ Len(render_write) < MaxHandlers
          /\ render_write' = Append(render_write, OTHER_HANDLER)
          /\ UNCHANGED <<depsgraph_update_pre, load_post>>
    /\ hook_call' = "other"
    /\ hook_ret' = "None"
    /\ UNCHANGED <<regVars, colorVars, animVars, hookVars, registered_classes,
                   before_register>>

\* ------------------------------------------------------------------------
\* onRenderWrite

\* the windows of the window manager: a window is the list of the areas of
\* its screen, an area has a type and the list of the types of its regions
AreaKinds ==
    {[type |-> "VIEW_3D", regions |-> <<"HEADER", "WINDOW">>],
     [type |-> "VIEW_3D", regions |-> <<"HEADER">>],
     [type |-> "PROPERTIES", regions |-> <<"WINDOW">>]}

\* the lists of at most n elements of S
SeqUpTo(S, n) == UNION {[1..m -> S] : m \in 0..n}

WindowSets == SeqUpTo(SeqUpTo(AreaKinds, MaxAreas), MaxWindows)

\* an entry of the override that the hook has not set
NoRef == <<>>

\* the override before the hook sets anything in it
NoOverride == [area |-> NoRef, window |-> NoRef, screen |-> NoRef, region |-> NoRef]

RECURSIVE ForRegion(_, _, _, _, _)
\* for region in area.regions, from the r-th on: the first WINDOW region is
\* taken, and the loop left
ForRegion(ov, w, a, regions, r) ==
    IF r > Len(regions) THEN ov
    ELSE IF regions[r] = "WINDOW" THEN [ov EXCEPT !.region = <<"region", w, a, r>>]
    ELSE ForRegion(ov, w, a, regions, r + 1)

RECURSIVE ForArea(_, _, _, _)
\* for area in window.screen.areas, from the a-th on
ForArea(ov, wins, w, a) ==
    IF a > Len(wins[w]) THEN ov
    ELSE IF wins[w][a].type = "VIEW_3D"
         THEN ForArea(ForRegion([ov EXCEPT !.area = <<"area", w, a>>,
                                           !.window = <<"window", w>>,
                                           !.screen = <<"screen", w>>],
                                w, a, wins[w][a].regions, 1),
                      wins, w, a + 1)
         ELSE ForArea(ov, wins, w, a + 1)

RECURSIVE ForWindow(_, _, _)
\* for window in bpy.context.window_manager.windows, from the w-th on
ForWindow(ov, wins, w) ==
    IF w > Len(wins) THEN ov
    ELSE ForWindow(ForArea(ov, wins, w, 1), wins, w + 1)

\* what the hook works on: the colour generator of the annotation operator,
\* the render.opengl property, the override, and the record of the calls
HookState ==
    [gen |-> gen, yielded |-> yielded, stopped |-> stopped, requested |-> requested,
     previous |-> previous, write_still |-> write_still, override |-> override,
     annotated |-> annotated]

\* bpy.ops.render.bat_render_annotation(override) in a scene whose mask
\* rendering asks for k colours, recorded with the place of the call
AnnotationCalled(st, k, place) ==
    LET run == Drawn(instance_color, k) IN
    [st EXCEPT !.gen = run.gen, !.yielded = run.yielded, !.stopped = run.stopped,
               !.requested = k, !.previous = Consumption(st.gen),
               !.annotated = Append(st.annotated, place)]

\* a hook that calls the operator where it finds a 3D viewport
onRenderWriteOn_CallInLoop(st, k, place) ==
    IF save_annotation
    THEN LET ov == ForWindow(NoOverride, windows, 1)
             set == [st EXCEPT !.write_still = TRUE, !.override = ov]
         IN  IF ov.area = NoRef THEN set ELSE AnnotationCalled(set, k, place)
    ELSE st

\* onRenderWrite(scene) on the state st
onRenderWriteOn(st, k, place) ==
    IF save_annotation
    THEN AnnotationCalled([st EXCEPT !.write_still = TRUE,
                                     !.override = ForWindow(NoOverride, windows, 1)],
                          k, place)
    ELSE st

RECURSIVE RunHandlers(_, _, _, _)
\* the host calls the callbacks of a handler list one after the other; those
\* of other owners do not touch this state
RunHandlers(handlers, st, k, place) ==
    IF handlers = <<>> THEN st
    ELSE RunHandlers(Tail(handlers),
                     IF Head(handlers) = "onRenderWrite"
                     THEN onRenderWriteOn(st, k, place) ELSE st,
                     k, place)

\* where a call of the annotation operator is made: the active frame, the
\* output path, the place of the animation operator, and the number of the
\* render of its run (0 outside of a run)
Place(n) == [frame_current |-> frame_current, filepath |-> filepath, pc |-> pc, render |-> n]

\* the variables of HookState take the values of st
HookStateBecomes(st) ==
    /\ gen' = st.gen
    /\ yielded' = st.yielded
    /\ stopped' = st.stopped
    /\ requested' = st.requested
    /\ previous' = st.previous
    /\ write_still' = st.write_still
    /\ override' = st.override
    /\ annotated' = st.annotated

\* a call of the hook by the host, for a render written outside of the
\* animation operator
onRenderWrite(k) ==
    /\ pc = "idle"
    /\ HookStateBecomes(onRenderWriteOn([HookState EXCEPT !.annotated = <<>>], k, Place(0)))
    /\ hook_call' = "onRenderWrite"
    /\ hook_ret' = "None"
    /\ UNCHANGED <<regVars, animVars, handlerVars, save_annotation, windows>>

RenderWritten == \E k \in SceneInstances : onRenderWrite(k)

\* ------------------------------------------------------------------------
\* BAT_OT_render_animation.execute

\* the output paths a scene starts with; a path is the list of its parts
RenderPaths == {<<"//render/">>, <<"/tmp/shot_">>}

\* no path: the value of a local that is not bound
NoPath == <<>>

\* scene.render.frame_path(frame=frame): the host's name of the file of that
\* frame, made of the scene's output path, as it is at the call, and the
\* frame number
frame_path(path, frame) == Append(path, frame)

\* a loop that stops before frame_end
FrameRange_EndExcluded(start, end, step) == range(start, end, step)

\* range(scene.frame_start, scene.frame_end+1, scene.frame_step)
FrameRange(start, end, step) == range(start, end + 1, step)

\* an assignment that leaves the path of the frame in place
RestoredPath_Kept(original, redirected) == redirected

\* scene.render.filepath after  scene.render.filepath = original_render_path
RestoredPath(original, redirected) == original

\* the operator is called: the loop is set up
render_animation_call ==
    /\ pc = "idle"
    /\ frames' = FrameRange(frame_start, frame_end, frame_step)
    /\ original_render_path' = NoPath
    /\ anim_ret' = "running"
    /\ entry_filepath' = filepath
    /\ rendered' = <<>>
    /\ annotated' = <<>>
    /\ pc' = "for"
    /\ UNCHANGED <<frame_start, frame_end, frame_step, frame_current, filepath>>
    /\ UNCHANGED <<regVars, colorVars, handlerVars, hook_call, hook_ret>>
    /\ UNCHANGED <<save_annotation, write_still, windows, override>>

\* the loop takes its next frame: frame_set, the path saved and redirected
render_animation_frame ==
    /\ pc = "for"
    /\ frames # <<>>
    /\ LET frame_num == Head(frames) IN
       /\ frame_current' = frame_num
       /\ original_render_path' = filepath
       /\ filepath' = frame_path(filepath, frame_current')
    /\ frames' = Tail(frames)
    /\ pc' = "render"
    /\ UNCHANGED <<frame_start, frame_end, frame_step, anim_ret, entry_filepath, rendered>>
    /\ UNCHANGED <<regVars, colorVars, handlerVars, hookVars, hook_call, hook_ret>>

\* bpy.ops.render.render(write_still=True): the host renders the active frame
\* and writes it to the scene's output path, and then calls the callbacks of
\* render_write, all before the call returns
render_animation_render ==
    /\ pc = "render"
    /\ rendered' = Append(rendered, [frame_current |-> frame_current, filepath |-> filepath])
    /\ \E k \in SceneInstances :
          HookStateBecomes(RunHandlers(render_write, HookState, k, Place(Len(rendered'))))
    /\ pc' = "restore"
    /\ UNCHANGED <<frame_start, frame_end, frame_step, frame_current, filepath, frames,
                   original_render_path, anim_ret, entry_filepath>>
    /\ UNCHANGED <<regVars, handlerVars, save_annotation, windows, hook_call, hook_ret>>

\* bpy.ops.render.render(write_still=True) raises: the exception leaves
\* execute at that line, nothing of the frame is kept and no line after it runs
render_animation_raise ==
    /\ pc = "render"
    /\ Len(entry_filepath) <= MaxFailures
    /\ anim_ret' = "raised"
    /\ pc' = "idle"
    /\ UNCHANGED <<frame_start, frame_end, frame_step, frame_current, filepath, frames,
                   original_render_path, entry_filepath, rendered>>
    /\ UNCHANGED <<regVars, colorVars, handlerVars, hookVars, hook_call, hook_ret>>

\* the path is put back, and the loop goes on
render_animation_restore ==
    /\ pc = "restore"
    /\ filepath' = RestoredPath(original_render_path, filepath)
    /\ pc' = "for"
    /\ UNCHANGED <<frame_start, frame_end, frame_step, frame_current, frames,
                   original_render_path, anim_ret, entry_filepath, rendered>>
    /\ UNCHANGED <<regVars, colorVars, handlerVars, hookVars, hook_call, hook_ret>>

\* the loop is over: return {'FINISHED'}
render_animation_return ==
    /\ pc = "for"
    /\ frames = <<>>
    /\ anim_ret' = "FINISHED"
    /\ pc' = "idle"
    /\ UNCHANGED <<frame_start, frame_end, frame_step, frame_current, filepath, frames,
                   original_render_path, entry_filepath, rendered>>
    /\ UNCHANGED <<regVars, colorVars, handlerVars, hookVars, hook_call, hook_ret>>

\* ------------------------------------------------------------------------
\* bpy collection helpers

\* [c.name for c in collection]
names(collection) == [i \in 1..Len(collection) |-> collection[i].name]

\* collection[index], index a Python index (a negative one counts from the end)
At(collection, index) ==
    IF index >= 0 THEN collection[index + 1] ELSE collection[Len(collection) + index + 1]

\* bpy_prop_collection.find(key): the index of the first item named key, -1 if none
find(collection, key) ==
    IF \E i \in 1..Len(collection) : collection[i].name = key
    THEN (CHOOSE i \in 1..Len(collection) :
            /\ collection[i].name = key
            /\ \A j \in 1..(i-1) : collection[j].name # key) - 1
    ELSE -1

\* a removal that takes the index as 1-based
RemoveAt_OneBased(collection, index) ==
    [i \in 1..(Len(collection) - 1) |->
        IF i < index THEN collection[i] ELSE collection[i + 1]]

\* bpy_prop_collection.remove(index)
RemoveAt(collection, index) ==
    [i \in 1..(Len(collection) - 1) |->
        IF i <= index THEN collection[i] ELSE collection[i + 1]]

\* ------------------------------------------------------------------------
\* The default value setter

\* a setter with the test turned around
setDefaultClassName_WhenNotEmpty(classes) ==
    IF classes # <<>>
    THEN Append(classes, [name |-> DEFAULT_CLASS_NAME, mask_color |-> <<0, 0, 0>>])
    ELSE classes

\* a setter without the emptiness test
setDefaultClassName_Unconditional(classes) ==
    Append(classes, [name |-> DEFAULT_CLASS_NAME, mask_color |-> <<0, 0, 0>>])

setDefaultClassName(classes) ==
    IF classes = <<>>
    THEN Append(classes, [name |-> DEFAULT_CLASS_NAME, mask_color |-> <<0, 0, 0>>])
    ELSE classes

\* the handler on depsgraph_update_pre
onRegister ==
    /\ classification_classes' = setDefaultClassName(classification_classes)
    /\ call' = [op |-> "onRegister", new_class_name |-> ""]
    /\ reports' = <<>>
    /\ ret' = "None"
    /\ redraw' = {}
    /\ UNCHANGED current_class
    /\ UNCHANGED <<colorVars, animVars, handlerVars, hookVars, hook_call, hook_ret>>

\* the handler on load_post
onFileLoaded ==
    /\ classification_classes' = setDefaultClassName(classification_classes)
    /\ call' = [op |-> "onFileLoaded", new_class_name |-> ""]
    /\ reports' = <<>>
    /\ ret' = "None"
    /\ redraw' = {}
    /\ UNCHANGED current_class
    /\ UNCHANGED <<colorVars, animVars, handlerVars, hookVars, hook_call, hook_ret>>

\* ------------------------------------------------------------------------
\* BAT_OT_add_class.execute

\* a validation that only refuses the empty name
AddRejection_EmptyOnly(classes, new_class_name) ==
    IF new_class_name = "" THEN 1 ELSE 0

\* the name is refused: 0 = no, 1 = empty, 2 = already in the registry
AddRejection(classes, new_class_name) ==
    IF new_class_name = "" THEN 1
    ELSE IF \E i \in 1..Len(classes) : names(classes)[i] = new_class_name THEN 2
    ELSE 0

\* an insertion at the front of the registry
AddEntry_AtFront(classes, new_class_name) ==
    <<[name |-> new_class_name, mask_color |-> UNSET_COLOR]>> \o classes

\* the registry after  new_class = classes.add(); new_class.name = new_class_name
AddEntry(classes, new_class_name) ==
    Append(classes, [name |-> new_class_name, mask_color |-> UNSET_COLOR])

\* the regions of the area that are tagged for redraw
UIRegions(area) == {i \in 0..(Len(area) - 1) : area[i + 1] = "UI"}

add_class(new_class_name, area) ==
    /\ UNCHANGED <<colorVars, animVars, handlerVars, hookVars, hook_call, hook_ret>>
    /\ call' = [op |-> "add_class", new_class_name |-> new_class_name]
    /\ CASE AddRejection(classification_classes, new_class_name) = 1 ->
              /\ reports' = <<[type |-> "ERROR_INVALID_INPUT",
                               message |-> "The class name must not be empty!"]>>
              /\ ret' = "FINISHED"
              /\ redraw' = {}
              /\ UNCHANGED <<classification_classes, current_class>>
         [] AddRejection(classification_classes, new_class_name) = 2 ->
              /\ reports' = <<[type |-> "WARNING",
                               message |-> "The class name already exists"]>>
              /\ ret' = "FINISHED"
              /\ redraw' = {}
              /\ UNCHANGED <<classification_classes, current_class>>
         [] OTHER ->
              /\ Len(classification_classes) < MaxClasses
              /\ classification_classes' = AddEntry(classification_classes, new_class_name)
              /\ current_class' = At(classification_classes', -1).name
              /\ reports' = <<>>
              /\ IF area = NoArea
                 THEN \* context.area.regions on None
                      /\ ret' = "AttributeError"
                      /\ redraw' = {}
                 ELSE /\ ret' = "FINISHED"
                      /\ redraw' = UIRegions(area)

AddClass == \E n \in ClassNames, a \in Areas : add_class(n, a)

\* ------------------------------------------------------------------------
\* BAT_OT_remove_class.execute

\* a guard that does not protect the default class
RemoveGuard_NoDefaultTest(classes, current, index) ==
    /\ Len(classes) > 0
    /\ index >= 1

\* the guard of the removal, index being find(current_class)
RemoveGuard(classes, current, index) ==
    /\ Len(classes) > 0
    /\ current # DEFAULT_CLASS_NAME
    /\ index >= 1

\* a selection that is not updated
SelectionAfterRemove_Kept(classes, index) == current_class

\* a selection that falls back to the first entry
SelectionAfterRemove_First(classes, index) == At(classes, 0).name

\* the selection after the removal of the entry at index: the entry before it
SelectionAfterRemove(classes, index) == At(classes, index - 1).name

remove_class ==
    LET index == find(classification_classes, current_class) IN
    /\ UNCHANGED <<colorVars, animVars, handlerVars, hookVars, hook_call, hook_ret>>
    /\ call' = [op |-> "remove_class", new_class_name |-> ""]
    /\ reports' = <<>>
    /\ ret' = "FINISHED"
    /\ redraw' = {}
    /\ IF RemoveGuard(classification_classes, current_class, index)
       THEN /\ classification_classes' = RemoveAt(classification_classes, index)
            /\ current_class' = SelectionAfterRemove(classification_classes', index)
       ELSE UNCHANGED <<classification_classes, current_class>>

\* ------------------------------------------------------------------------
\* The user picks the current class in the panel: a write of the scene's
\* current_class string property

set_current_class(name) ==
    /\ current_class' = name
    /\ call' = [op |-> "set_current_class", new_class_name |-> ""]
    /\ reports' = <<>>
    /\ ret' = "None"
    /\ redraw' = {}
    /\ UNCHANGED classification_classes
    /\ UNCHANGED <<colorVars, animVars, handlerVars, hookVars, hook_call, hook_ret>>

SelectClass == \E n \in ClassNames : set_current_class(n)

\* ------------------------------------------------------------------------
\* The registry as the scene is created: no class yet; current_class holds
\* whatever string the scene stores

\* no generator exists before the first annotation render
InitColors ==
    /\ gen = NoGenerator
    /\ yielded = <<>>
    /\ stopped = FALSE
    /\ requested = 0
    /\ previous = "none"

\* nothing is registered, and no window is open
InitHandlers ==
    /\ depsgraph_update_pre = <<>>
    /\ load_post = <<>>
    /\ render_write = <<>>
    /\ registered_classes = {}
    /\ before_register = <<<<>>, <<>>, <<>>>>
    /\ hook_call = "none"
    /\ hook_ret = "None"

\* the hook has not run
InitHook ==
    /\ override = NoOverride
    /\ annotated = <<>>

\* annotations are not saved with renders, and no window is open
InitHookOff ==
    /\ InitHook
    /\ save_annotation = FALSE
    /\ write_still = FALSE
    /\ windows = <<>>

\* a scene at rest: any frame range, step and active frame, one of the paths
InitScene ==
    /\ frame_start \in 0..MaxFrame
    /\ frame_end \in 0..MaxFrame
    /\ frame_step \in 1..MaxStep
    /\ frame_current \in 0..MaxFrame
    /\ filepath \in RenderPaths
    /\ pc = "idle"
    /\ frames = <<>>
    /\ original_render_path = NoPath
    /\ anim_ret = "none"
    /\ entry_filepath = filepath
    /\ rendered = <<>>

\* the scene the registry and the colour generator are looked at in
InitSceneFixed ==
    /\ InitScene
    /\ frame_start = 1
    /\ frame_end = MaxFrame
    /\ frame_step = 1
    /\ frame_current = 1
    /\ filepath = <<"//render/">>

Init ==
    /\ InitColors
    /\ InitHandlers
    /\ InitHookOff
    /\ InitSceneFixed
    /\ classification_classes = <<>>
    /\ current_class \in ClassNames
    /\ call = [op |-> "none", new_class_name |-> ""]
    /\ reports = <<>>
    /\ ret = "None"
    /\ redraw = {}

Next ==
    \/ onRegister
    \/ onFileLoaded
    \/ AddClass
    \/ remove_class
    \/ SelectClass

Spec == Init /\ [][Next]_vars

\* The registry once the addon is registered or a file is loaded: the default
\* setter has run on the empty registry
InitLoaded ==
    /\ InitColors
    /\ InitHandlers
    /\ InitHookOff
    /\ InitSceneFixed
    /\ classification_classes = setDefaultClassName(<<>>)
    /\ current_class \in ClassNames
    /\ call = [op |-> "onRegister", new_class_name |-> ""]
    /\ reports = <<>>
    /\ ret = "None"
    /\ redraw = {}

SpecLoaded == InitLoaded /\ [][Next]_vars

\* The colour generator on its own: one annotation render after the other
NextColor ==
    \/ RenderAnnotation
    \/ next_color

InitColor ==
    /\ Init
    /\ current_class = DEFAULT_CLASS_NAME

SpecColor == InitColor /\ [][NextColor]_vars

\* The animation render operator on its own, called again and again
InitAnim ==
    /\ InitColors
    /\ InitHandlers
    /\ InitHookOff
    /\ InitScene
    /\ classification_classes = setDefaultClassName(<<>>)
    /\ current_class = DEFAULT_CLASS_NAME
    /\ call = [op |-> "onRegister", new_class_name |-> ""]
    /\ reports = <<>>
    /\ ret = "None"
    /\ redraw = {}

NextAnim ==
    \/ render_animation_call
    \/ render_animation_frame
    \/ render_animation_render
    \/ render_animation_restore
    \/ render_animation_return

SpecAnim == InitAnim /\ [][NextAnim]_vars

\* The animation render operator with renders of the host that can fail
NextAnimFail ==
    \/ NextAnim
    \/ render_animation_raise

SpecAnimFail == InitAnim /\ [][NextAnimFail]_vars

\* The handler lists on their own
InitRegistration ==
    /\ Init
    /\ current_class = DEFAULT_CLASS_NAME

NextRegistration ==
    \/ register
    \/ unregister
    \/ other_append

SpecRegistration == InitRegistration /\ [][NextRegistration]_vars

\* The render-write hook on its own, with any windows open
InitRenderWrite ==
    /\ InitColors
    /\ InitHandlers
    /\ InitSceneFixed
    /\ InitHook
    /\ save_annotation \in BOOLEAN
    /\ write_still \in BOOLEAN
    /\ windows \in WindowSets
    /\ classification_classes = setDefaultClassName(<<>>)
    /\ current_class = DEFAULT_CLASS_NAME
    /\ call = [op |-> "onRegister", new_class_name |-> ""]
    /\ reports = <<>>
    /\ ret = "None"
    /\ redraw = {}

SpecRenderWrite == InitRenderWrite /\ [][RenderWritten]_vars

\* The animation operator with the handlers that register() puts in place:
\* annotations may be saved with renders, and one window shows a 3D viewport
InitAnimHook ==
    /\ InitColors
    /\ InitHandlers
    /\ InitHook
    /\ InitScene
    /\ save_annotation \in BOOLEAN
    /\ write_still = FALSE
    /\ windows = <<<<[type |-> "VIEW_3D", regions |-> <<"HEADER", "WINDOW">>]>>>>
    /\ classification_classes = setDefaultClassName(<<>>)
    /\ current_class = DEFAULT_CLASS_NAME
    /\ call = [op |-> "onRegister", new_class_name |-> ""]
    /\ reports = <<>>
    /\ ret = "None"
    /\ redraw = {}

NextAnimHook ==
    \/ NextAnim
    \/ register
    \/ unregister

SpecAnimHook == InitAnimHook /\ [][NextAnimHook]_vars

\* ------------------------------------------------------------------------
\* Properties of the colour generator

\* the k-th colour (k >= 1) of the order "red outermost, green in the middle,
\* blue innermost, each from 230 down in steps of 10" over n values a channel
NthColor(k, n) ==
    <<230 - 10 * ((k - 1) \div (n * n)),
      230 - 10 * (((k - 1) \div n) % n),
      230 - 10 * ((k - 1) % n),
      1>>

\* the colours the generator has yielded, as a set
YieldedSet == {yielded[i] : i \in 1..Len(yielded)}

\* C7 as stated: a generator yields exactly 24^3 = 13,824 colours before it is
\* exhausted (it yields every colour asked for up to that number, and
\* StopIteration comes when more are asked for), and its draws are pairwise
\* distinct.
C7_Yields13824Distinct ==
    /\ Len(yielded) = (IF requested <= 24 * 24 * 24 THEN requested ELSE 24 * 24 * 24)
    /\ stopped <=> requested > 24 * 24 * 24
    /\ Cardinality(YieldedSet) = Len(yielded)

\* C7 amended: a generator yields exactly 23^3 = 12,167 colours before it is
\* exhausted (it yields every colour asked for up to that number, and
\* StopIteration comes when more are asked for), and its draws are pairwise
\* distinct.
C7_Yields12167Distinct ==
    /\ Len(yielded) = (IF requested <= 23 * 23 * 23 THEN requested ELSE 23 * 23 * 23)
    /\ stopped <=> requested > 23 * 23 * 23
    /\ Cardinality(YieldedSet) = Len(yielded)

\* a generator was drawn from until it raised StopIteration
C7_Witness ==
    /\ stopped
    /\ requested > Len(yielded)
    /\ Len(yielded) > 0

\* C8: whatever became of the generator of the render before, the generator
\* of a render yields (230,230,230,1) first and then the colours of the fixed
\* order: red outermost, green in the middle, blue innermost, each descending
\* by 10.
C8_FreshSequenceSameOrder ==
    /\ Len(yielded) >= 1 => yielded[1] = <<230, 230, 230, 1>>
    /\ \A k \in 1..Len(yielded) : yielded[k] = NthColor(k, Len(ChannelValues))

\* a render drew all the colours after the render before it had left its
\* generator partly consumed
C8_Witness ==
    /\ previous = "partial"
    /\ stopped
    /\ Len(yielded) > Len(ChannelValues) * Len(ChannelValues)

\* ------------------------------------------------------------------------
\* Properties of the animation render operator

\* frame_start, frame_start + frame_step, ... up to frame_end, ascending
ExpectedFrames ==
    IF frame_start > frame_end THEN <<>>
    ELSE [i \in 1..((frame_end - frame_start) \div frame_step + 1) |->
            frame_start + (i - 1) * frame_step]

\* the operator has returned
Returned == pc = "idle" /\ anim_ret = "FINISHED"

\* C9: the operator renders the frames frame_start, frame_start+frame_step,
\* ... that are <= frame_end, in ascending order and each once, the active
\* frame being that frame at its render: while it runs the renders made are
\* the first of these frames, and when it has returned they are all of them
\* (none when frame_start > frame_end); it returns FINISHED.
C9_RendersExactlyTheFrameRange ==
    /\ pc # "idle" =>
          /\ Len(rendered) <= Len(ExpectedFrames)
          /\ \A i \in 1..Len(rendered) : rendered[i].frame_current = ExpectedFrames[i]
    /\ (pc = "idle" /\ anim_ret # "none") =>
          /\ anim_ret = "FINISHED"
          /\ Len(rendered) = Len(ExpectedFrames)
          /\ \A i \in 1..Len(rendered) : rendered[i].frame_current = ExpectedFrames[i]
          /\ frame_start > frame_end => rendered = <<>>

\* the operator has returned from a run over three frames two apart, the
\* last of them frame_end
C9_Witness ==
    /\ Returned
    /\ frame_step = 2
    /\ Len(rendered) = 3
    /\ rendered[3].frame_current = frame_end

\* C10: each render of the operator is made with the output path that the
\* host derives from the path the scene had when the operator was called and
\* from the number of the frame rendered, and once the operator has returned
\* the scene's output path is the one it had when the operator was called.
C10_FramePathsAndRestore ==
    /\ \A i \in 1..Len(rendered) :
          rendered[i].filepath = frame_path(entry_filepath, rendered[i].frame_current)
    /\ Returned => filepath = entry_filepath

\* the operator has returned from a run of several renders
C10_Witness ==
    /\ Returned
    /\ Len(rendered) >= 2
    /\ rendered[1].filepath # rendered[2].filepath

\* ------------------------------------------------------------------------
\* Properties of the class registry

\* the Python indices of the entries named key
IndicesOf(classes, key) == {i \in 0..(Len(classes) - 1) : At(classes, i).name = key}

\* C1: once the default setter has run on the empty registry, the registry is
\* never empty and its entry at index 0 is the one with the reserved default
\* name, whatever add class, remove class and the hooks do afterwards.
C1_DefaultStaysFirst ==
    /\ Len(classification_classes) >= 1
    /\ IndicesOf(classification_classes, DEFAULT_CLASS_NAME) # {}
    /\ At(classification_classes, 0).name = DEFAULT_CLASS_NAME

\* a removal was attempted with the default class selected in a registry of
\* several entries
C1_Witness ==
    /\ call.op = "remove_class"
    /\ current_class = DEFAULT_CLASS_NAME
    /\ Len(classification_classes) >= 2

\* C2: in every reachable state the names of the registry are pairwise
\* distinct and none of them is the empty string.
C2_NamesUniqueNonEmpty ==
    \A i \in 1..Len(classification_classes) :
        /\ classification_classes[i].name # ""
        /\ \A j \in 1..Len(classification_classes) :
              classification_classes[i].name = classification_classes[j].name => i = j

\* the default name was offered to add class while the default class sat
\* behind another entry
C2_Witness ==
    /\ call = [op |-> "add_class", new_class_name |-> DEFAULT_CLASS_NAME]
    /\ reports # <<>>
    /\ IndicesOf(classification_classes, DEFAULT_CLASS_NAME) = {1}

\* C3: add class with the empty name or with a name of the registry changes
\* neither the registry nor the selection, reports one message (an input
\* error for the empty name, a warning for the duplicate) and returns FINISHED.
C3_RejectedAddIsNoOp ==
    [][(/\ call'.op = "add_class"
        /\ \/ call'.new_class_name = ""
           \/ IndicesOf(classification_classes, call'.new_class_name) # {})
       => /\ classification_classes' = classification_classes
          /\ current_class' = current_class
          /\ Len(reports') = 1
          /\ reports'[1].type = (IF call'.new_class_name = ""
                                  THEN "ERROR_INVALID_INPUT" ELSE "WARNING")
          /\ ret' = "FINISHED"]_vars

\* a name of the registry other than the selected one was offered to add class
C3_Witness ==
    /\ call.op = "add_class"
    /\ IndicesOf(classification_classes, call.new_class_name) # {}
    /\ call.new_class_name # current_class
    /\ reports # <<>>
    /\ reports[1].type = "WARNING"

\* C4: add class with a non-empty name that is not in the registry appends one
\* entry with that name behind the unchanged old entries and selects it; the
\* registry then holds exactly one entry with that name.
C4_AddAppendsAndSelects ==
    [][(/\ call'.op = "add_class"
        /\ call'.new_class_name # ""
        /\ IndicesOf(classification_classes, call'.new_class_name) = {})
       => /\ Len(classification_classes') = Len(classification_classes) + 1
          /\ SubSeq(classification_classes', 1, Len(classification_classes))
                = classification_classes
          /\ At(classification_classes', -1).name = call'.new_class_name
          /\ current_class' = call'.new_class_name
          /\ Cardinality(IndicesOf(classification_classes', call'.new_class_name)) = 1]_vars

\* a class was added behind two others
C4_Witness ==
    /\ call.op = "add_class"
    /\ reports = <<>>
    /\ Len(classification_classes) >= 3
    /\ current_class = At(classification_classes, -1).name

\* C5: remove class changes nothing, reports nothing and returns FINISHED when
\* the selection is the default name (wherever its entry is), or names the
\* entry at index 0, or names no entry, or the registry has a single entry.
C5_GuardedRemoveIsSilentNoOp ==
    [][(/\ call'.op = "remove_class"
        /\ \/ current_class = DEFAULT_CLASS_NAME
           \/ 0 \in IndicesOf(classification_classes, current_class)
           \/ IndicesOf(classification_classes, current_class) = {}
           \/ Len(classification_classes) = 1)
       => /\ classification_classes' = classification_classes
          /\ current_class' = current_class
          /\ reports' = <<>>
          /\ ret' = "FINISHED"]_vars

\* a removal was attempted with the default class selected and not at index 0
C5_Witness ==
    /\ call.op = "remove_class"
    /\ current_class = DEFAULT_CLASS_NAME
    /\ IndicesOf(classification_classes, DEFAULT_CLASS_NAME) \cap {1, 2} # {}

\* C6: when the selection is not the default name and names the entry at
\* index i >= 1, remove class deletes that entry alone, keeps the others in
\* their order, and selects the entry that was at index i-1.
C6_RemoveDeletesSelected ==
    [][(/\ call'.op = "remove_class"
        /\ current_class # DEFAULT_CLASS_NAME
        /\ \E i \in IndicesOf(classification_classes, current_class) : i >= 1)
       => \E i \in IndicesOf(classification_classes, current_class) :
            /\ i >= 1
            /\ Len(classification_classes') = Len(classification_classes) - 1
            /\ \A k \in 0..(Len(classification_classes') - 1) :
                  At(classification_classes', k) =
                    At(classification_classes, IF k < i THEN k ELSE k + 1)
            /\ current_class' = At(classification_classes, i - 1).name]_vars

\* an entry with two entries before it and one behind it was removed
C6_Witness ==
    /\ call.op = "remove_class"
    /\ Len(classification_classes) = 3
    /\ current_class = At(classification_classes, 1).name
    /\ current_class # DEFAULT_CLASS_NAME


\* C12: the default setter is idempotent: a call of either hook on a
\* non-empty registry changes neither the registry nor the selection, and a
\* call on the empty registry leaves exactly one entry, with the default name
\* and the colour black, so that every later call finds the registry
\* non-empty and changes nothing.
C12_EnsureDefaultIdempotent ==
    [][(call'.op \in {"onRegister", "onFileLoaded"})
       => /\ current_class' = current_class
          /\ classification_classes # <<>> =>
                classification_classes' = classification_classes
          /\ classification_classes = <<>> =>
                classification_classes' =
                    <<[name |-> DEFAULT_CLASS_NAME, mask_color |-> <<0, 0, 0>>]>>]_vars

\* a hook fired on a registry of several entries that does not start with
\* the default class
C12_Witness ==
    /\ call.op \in {"onRegister", "onFileLoaded"}
    /\ Len(classification_classes) >= 2
    /\ At(classification_classes, 0).name # DEFAULT_CLASS_NAME

\* C16: a step of add class, remove class or a default-setter hook, accepted
\* or refused, taken where the selection names an entry of the registry,
\* ends where the selection names exactly one entry of the registry.
C16_SelectionStaysValid ==
    [][(/\ call'.op \in {"add_class", "remove_class", "onRegister", "onFileLoaded"}
        /\ IndicesOf(classification_classes, current_class) # {})
       => Cardinality(IndicesOf(classification_classes', current_class')) = 1]_vars

\* the last of two entries, not the default one, is selected after a removal
C16_Witness ==
    /\ call.op = "remove_class"
    /\ Len(classification_classes) = 2
    /\ current_class = At(classification_classes, 1).name
    /\ current_class # DEFAULT_CLASS_NAME

\* C14 as stated: when the render of a frame fails, the failure leaves the
\* operator at once (no retry, no render of a later frame: the renders made
\* are those of the frames before the failing one, each once), and the
\* scene's output path is the one it had when the operator was called.
C14_FailureRestoresPath ==
    (pc = "idle" /\ anim_ret = "raised") =>
        /\ Len(rendered) < Len(ExpectedFrames)
        /\ \A i \in 1..Len(rendered) : rendered[i].frame_current = ExpectedFrames[i]
        /\ frame_current = ExpectedFrames[Len(rendered) + 1]
        /\ filepath = entry_filepath

\* C15: a consumer that has asked a generator for more colours than the
\* palette holds has been refused (StopIteration) and has received the
\* colours of the palette, each once and in order, and nothing more: the
\* calls after the last colour yield no value, the generator stays at the end
\* of the list and does not start over.
C15_NothingBeyondThePalette ==
    requested > Len(INSTANCE_COLORS) =>
        /\ stopped
        /\ yielded = INSTANCE_COLORS
        /\ gen.index = Len(INSTANCE_COLORS)

\* next() was called three more times on a generator that had already raised
\* StopIteration
C15_Witness ==
    /\ stopped
    /\ requested = Len(INSTANCE_COLORS) + 4
    /\ Len(yielded) = Len(INSTANCE_COLORS)

\* ------------------------------------------------------------------------
\* Properties of the handler lists

\* how many times x is in list
Count(x, list) == Cardinality({i \in 1..Len(list) : list[i] = x})

\* C19 as stated: whatever calls of register() and unregister() were made,
\* each callback of the module is at most once in its handler list, and when
\* the last of these calls was unregister(), none of them is in any list.
C19_CallbacksAtMostOnce ==
    /\ Count("onRegister", depsgraph_update_pre) <= 1
    /\ Count("onFileLoaded", load_post) <= 1
    /\ Count("onRenderWrite", render_write) <= 1
    /\ hook_call = "unregister" =>
          /\ ~In("onRegister", depsgraph_update_pre)
          /\ ~In("onFileLoaded", load_post)
          /\ ~In("onRenderWrite", render_write)

\* C11 as stated: an unregister() that follows a register() leaves each of
\* the three handler lists with the contents it had before that register(),
\* the callbacks of other owners in their places.
C11_RoundTripRestoresLists ==
    [][(hook_call = "register" /\ hook_call' = "unregister") =>
          <<depsgraph_update_pre', load_post', render_write'>> = before_register]_vars

\* ------------------------------------------------------------------------
\* Properties of the render-write hook

\* C13: a call of the hook with the save-annotation flag set makes exactly
\* one call of the annotation operator, whatever windows are open (none with
\* a 3D viewport included); a call with the flag not set makes none and
\* leaves every variable as it was, the write-output property of the
\* screen-capture operator among them.
C13_HookCallsOperatorOnce ==
    [][hook_call' = "onRenderWrite" =>
          IF save_annotation
          THEN Len(annotated') = 1
          ELSE /\ annotated' = <<>>
               /\ UNCHANGED <<write_still, override, colorVars, regVars, animVars,
                              handlerVars, save_annotation, windows>>]_vars

\* the hook has run with the flag set and windows open, none of them with a
\* 3D viewport, and has called the operator
C13_Witness ==
    /\ hook_call = "onRenderWrite"
    /\ save_annotation
    /\ windows # <<>>
    /\ override.area = NoRef
    /\ Len(annotated) = 1

C18_AnnotationOncePerFrame ==
    (pc # "idle" /\ save_annotation /\ In("onRenderWrite", render_write)) =>
        /\ Len(annotated) = Len(rendered)
        /\ \A i \in 1..Len(rendered) :
              annotated[i] = [frame_current |-> rendered[i].frame_current,
                              filepath |-> rendered[i].filepath,
                              pc |-> "render",
                              render |-> i]

====
